---- MODULE Spec2Model ----
(***************************************************************************)
(* RSExportForEach (slang_rs_export_foreach.cpp): classification of a      *)
(* compute kernel's parameters into the roles In, Out, UsrData, X, Y, the  *)
(* signature metadata bitmask, the pre-ICS compatibility check, the        *)
(* construction of the descriptor in Create, and the predicates and the    *)
(* validator for the special functions root(), init() and .rs.dtor().      *)
(***************************************************************************)
EXTENDS Integers, Sequences, FiniteSets, TLC

VARIABLES
  FD,                 \* the function declaration: [name, ret, params]
  targetAPI,          \* Context->getTargetAPI()
  pc,                 \* position in Create / validateAndConstructParams
  numParams,          \* RSExportForEach::numParams
  i,                  \* the parameter index of validateAndConstructParams
  valid,              \* the local `valid` of validateAndConstructParams
  mIn, mOut, mUsrData, mX, mY,   \* role slots: a parameter index or NULL
  mSignatureMetadata, \* the bitmask
  mParamPacketType,   \* TRUE when the packet record type was exported
  diags,              \* what was passed to DiagEngine->Report, in order
  result,             \* what validateAndConstructParams returned
  created,            \* what Create returned
  gfxRoot,            \* what isGraphicsRootRSFunc returned
  forEach,            \* what isRSForEachFunc returned
  special,            \* what validateSpecialFuncDecl returned, with its diagnostics
  called              \* the special-function entry points called so far

vars == <<FD, targetAPI, pc, numParams, i, valid, mIn, mOut, mUsrData, mX, mY,
          mSignatureMetadata, mParamPacketType, diags, result, created,
          gfxRoot, forEach, special, called>>

kernelVars == <<pc, numParams, i, valid, mIn, mOut, mUsrData, mX, mY,
                mSignatureMetadata, mParamPacketType, diags, result, created>>

(***************************************************************************)
(* Bounds of the model.                                                    *)
(***************************************************************************)
MaxParams == 5
MaxSpecialParams == 2

(***************************************************************************)
(* Target API levels (slang_version.h).  Only their order is used.         *)
(***************************************************************************)
SLANG_MINIMUM_TARGET_API == 11
SLANG_ICS_TARGET_API == 14
SLANG_JB_TARGET_API == 16

TargetAPIs == {SLANG_MINIMUM_TARGET_API, SLANG_ICS_TARGET_API, SLANG_JB_TARGET_API}

NULL == -1

(***************************************************************************)
(* Canonical types, as far as the code looks at them.                      *)
(***************************************************************************)
isPointerType(t) == t \in {"T *", "const T *", "const void *"}

PointeeIsConstQualified(t) == t \in {"const T *", "const void *"}

PointeeUnqualified(t) ==
  CASE t = "const void *" -> "void"
    [] t \in {"T *", "const T *"} -> "T"
    [] OTHER -> "none"

getUnqualifiedType(t) ==
  CASE t = "const unsigned int" -> "unsigned int"
    [] t = "const int" -> "int"
    [] OTHER -> t

Param(t, n) == [type |-> t, name |-> n]

\* The parameter declarations a kernel candidate is drawn from.
KernelParams ==
  { Param("const T *", "in"), Param("T *", "out"), Param("const void *", "usr"),
    Param("unsigned int", "x"), Param("unsigned int", "y"), Param("unsigned int", "a") }

\* The parameter declarations a special function is drawn from.
SpecialParams ==
  { Param("int", "a"), Param("const int", "a"), Param("unsigned int", "x"),
    Param("T *", "out"), Param("const T *", "in") }

SeqsUpTo(S, lo, hi) == UNION { [1..n -> S] : n \in lo..hi }

getParamDecl(fd, k) == fd.params[k + 1]

isRootRSFunc(fd) == fd.name = "root"
isInitRSFunc(fd) == fd.name = "init"
isDtorRSFunc(fd) == fd.name = ".rs.dtor"

Diag(id, at) == [id |-> id, at |-> at]

(***************************************************************************)
(* validateAndConstructParams                                              *)
(***************************************************************************)

\* Lines 65-66: a kernel other than root() below the JB target.
NonRootBelowJB(api, fd) == api < SLANG_JB_TARGET_API /\ ~isRootRSFunc(fd)

\* Faulty variant of ReturnsVoid: an int result is let through as well.
ReturnsVoidOrInt(fd) == fd.ret \in {"void", "int"}

\* Line 80: the canonical result type is void.
ReturnsVoid(fd) == fd.ret = "void"

\* Line 97 and line 126: a pointer to a const-qualified pointee.
IsConstPointer(t) == isPointerType(t) /\ PointeeIsConstQualified(t)

\* Line 106: a pointer to a pointee that is not const-qualified.
IsNonConstPointer(t) == isPointerType(t) /\ ~PointeeIsConstQualified(t)

\* Faulty variant of MissingInOut: the test of mOut is inverted.
MissingInOutInverted(in, out) == in = NULL /\ out # NULL

\* Line 112.
MissingInOut(in, out) == in = NULL /\ out = NULL

\* Line 136: the parameter's unqualified canonical type is unsigned int.
IsUnsignedInt(t) == getUnqualifiedType(t) = "unsigned int"

\* Lines 62-87: numParams, the JB check (which returns at once) and the
\* check of the return type (which does not).
Begin ==
  /\ pc = "begin"
  /\ numParams' = Len(FD.params)
  /\ IF NonRootBelowJB(targetAPI, FD)
       THEN /\ diags' = Append(diags, Diag("NonRootKernel", NULL))
            /\ result' = FALSE
            /\ pc' = "create"
            /\ UNCHANGED valid
       ELSE /\ valid' = ReturnsVoid(FD)
            /\ diags' = IF ReturnsVoid(FD) THEN diags
                        ELSE Append(diags, Diag("ReturnNotVoid", NULL))
            /\ pc' = "inout"
            /\ UNCHANGED result
  /\ UNCHANGED <<FD, targetAPI, i, mIn, mOut, mUsrData, mX, mY, mSignatureMetadata,
                 mParamPacketType, created, gfxRoot, forEach, special, called>>

\* Lines 92-120: const T1 *in, T2 *out, and the error when both are absent.
CheckInOut ==
  /\ pc = "inout"
  /\ LET in  == IF IsConstPointer(getParamDecl(FD, 0).type) THEN 0 ELSE NULL
         i1  == IF in # NULL THEN 1 ELSE 0
         out == IF i1 < numParams /\ IsNonConstPointer(getParamDecl(FD, i1).type)
                  THEN i1 ELSE NULL
         i2  == IF out # NULL THEN i1 + 1 ELSE i1
     IN /\ mIn' = in
        /\ mOut' = out
        /\ i' = i2
        /\ valid' = IF MissingInOut(in, out) THEN FALSE ELSE valid
        /\ diags' = IF MissingInOut(in, out)
                      THEN Append(diags, Diag("MissingInOut", NULL)) ELSE diags
  /\ pc' = "usrdata"
  /\ UNCHANGED <<FD, targetAPI, numParams, mUsrData, mX, mY, mSignatureMetadata,
                 mParamPacketType, result, created, gfxRoot, forEach, special, called>>

\* Lines 122-130: const T3 *usrData.
CheckUsrData ==
  /\ pc = "usrdata"
  /\ IF i < numParams /\ IsConstPointer(getParamDecl(FD, i).type)
       THEN mUsrData' = i /\ i' = i + 1
       ELSE UNCHANGED <<mUsrData, i>>
  /\ pc' = "scan"
  /\ UNCHANGED <<FD, targetAPI, numParams, valid, mIn, mOut, mX, mY, mSignatureMetadata,
                 mParamPacketType, diags, result, created, gfxRoot, forEach, special, called>>

Slots(x, y, err) == [mX |-> x, mY |-> y, err |-> err]

\* Faulty variant of NamedX: no check that Y was assigned before.
NamedXIgnoringY(x, y, k) ==
  IF x # NULL THEN Slots(x, y, "Duplicate") ELSE Slots(k, y, "")

\* Lines 147-157: an unsigned int parameter named "x".
NamedX(x, y, k) ==
  IF x # NULL THEN Slots(x, y, "Duplicate")
  ELSE IF y # NULL THEN Slots(x, y, "Duplicate")
  ELSE Slots(k, y, "")

\* Faulty variant of NamedY: the parameter is stored in the X slot.
NamedYIntoX(x, y, k) ==
  IF y # NULL THEN Slots(x, y, "Duplicate") ELSE Slots(k, y, "")

\* Lines 158-164: an unsigned int parameter named "y".
NamedY(x, y, k) ==
  IF y # NULL THEN Slots(x, y, "Duplicate") ELSE Slots(x, k, "")

\* Faulty variant of Positional: X is taken whenever it is empty, also after Y.
PositionalIgnoringY(x, y, k) ==
  IF x = NULL THEN Slots(k, y, "")
  ELSE IF y = NULL THEN Slots(x, k, "")
  ELSE Slots(x, y, "Unexpected")

\* Lines 165-180: an unsigned int parameter of any other name.
Positional(x, y, k) ==
  IF x = NULL /\ y = NULL THEN Slots(k, y, "")
  ELSE IF y = NULL THEN Slots(x, k, "")
  ELSE Slots(x, y, "Unexpected")

\* Lines 136-181: one parameter of the coordinate scan.
Coordinate(p, x, y, k) ==
  IF ~IsUnsignedInt(p.type) THEN Slots(x, y, "Unexpected")
  ELSE IF p.name = "x" THEN NamedX(x, y, k)
  ELSE IF p.name = "y" THEN NamedY(x, y, k)
  ELSE Positional(x, y, k)

\* Lines 132-184: one iteration of the while loop.
ScanParam ==
  /\ pc = "scan"
  /\ i < numParams
  /\ LET r == Coordinate(getParamDecl(FD, i), mX, mY, i)
     IN /\ mX' = r.mX
        /\ mY' = r.mY
        /\ valid' = IF r.err = "" THEN valid ELSE FALSE
        /\ diags' = IF r.err = "" THEN diags ELSE Append(diags, Diag(r.err, i))
  /\ i' = i + 1
  /\ UNCHANGED <<FD, targetAPI, pc, numParams, mIn, mOut, mUsrData, mSignatureMetadata,
                 mParamPacketType, result, created, gfxRoot, forEach, special, called>>

Bit(slot, b) == IF slot # NULL THEN b ELSE 0

\* Faulty variant of SignatureBits: the usrData bit is left out.
SignatureBitsWithoutUsrData(in, out, usr, x, y) ==
  Bit(in, 1) + Bit(out, 2) + Bit(x, 8) + Bit(y, 16)

\* Lines 189-193: the bitwise encoding of the assigned roles.
SignatureBits(in, out, usr, x, y) ==
  Bit(in, 1) + Bit(out, 2) + Bit(usr, 4) + Bit(x, 8) + Bit(y, 16)

\* Lines 199-203: the masks that skip no parameter.
NoSkip == {31, 15, 7, 3, 1}

\* Faulty variant of MayNotSkip: the ICS target itself is treated as old.
MayNotSkipUpToICS(api, m) == api <= SLANG_ICS_TARGET_API /\ m \notin NoSkip

\* Lines 196-203: the condition of the "may not skip parameters" error.
MayNotSkip(api, m) == api < SLANG_ICS_TARGET_API /\ m \notin NoSkip

\* Lines 186-216: after the loop, the metadata and the pre-ICS check.
Finish ==
  /\ pc = "scan"
  /\ ~(i < numParams)
  /\ LET m == IF valid THEN SignatureBits(mIn, mOut, mUsrData, mX, mY) ELSE 0
     IN /\ mSignatureMetadata' = m
        /\ valid' = IF MayNotSkip(targetAPI, m) THEN FALSE ELSE valid
        /\ diags' = IF MayNotSkip(targetAPI, m)
                      THEN Append(diags, Diag("MayNotSkip", NULL)) ELSE diags
        /\ result' = valid'
  /\ pc' = "create"
  /\ UNCHANGED <<FD, targetAPI, numParams, i, mIn, mOut, mUsrData, mX, mY,
                 mParamPacketType, created, gfxRoot, forEach, special, called>>

(***************************************************************************)
(* Create                                                                  *)
(***************************************************************************)

\* Lines 246-247: the usrData pointee, unqualified, is void.
UsrDataIsVoid(fd, usr) == PointeeUnqualified(getParamDecl(fd, usr).type) = "void"

\* Lines 229-304: what Create does once validateAndConstructParams returned.
\* RSExportType::Create is outside this file: it may return NULL.
CreateDescriptor ==
  /\ pc = "create"
  /\ pc' = "done"
  /\ IF ~result
       THEN created' = "NULL" /\ UNCHANGED <<mUsrData, mParamPacketType>>
       ELSE IF mUsrData = NULL
         THEN created' = "descriptor" /\ UNCHANGED <<mUsrData, mParamPacketType>>
         ELSE IF UsrDataIsVoid(FD, mUsrData)
           THEN /\ mUsrData' = NULL
                /\ created' = "descriptor"
                /\ UNCHANGED mParamPacketType
           ELSE \E ET \in {"NULL", "record"} :
                  /\ mParamPacketType' = (ET # "NULL")
                  /\ created' = IF ET = "NULL" THEN "NULL" ELSE "descriptor"
                  /\ UNCHANGED mUsrData
  /\ UNCHANGED <<FD, targetAPI, numParams, i, valid, mIn, mOut, mX, mY,
                 mSignatureMetadata, diags, result, gfxRoot, forEach, special, called>>

\* The constructor's state (the members are initialised in the header), for
\* every declaration with at least one parameter (line 63).
KernelFuncs ==
  [name : {"root", "foo"}, ret : {"void", "int"},
   params : SeqsUpTo(KernelParams, 1, MaxParams)]

Fresh ==
  /\ numParams = 0
  /\ i = 0
  /\ valid = TRUE
  /\ mIn = NULL /\ mOut = NULL /\ mUsrData = NULL /\ mX = NULL /\ mY = NULL
  /\ mSignatureMetadata = 0
  /\ mParamPacketType = FALSE
  /\ diags = <<>>
  /\ result = FALSE
  /\ created = "pending"
  /\ gfxRoot = FALSE
  /\ forEach = FALSE
  /\ special = [valid |-> TRUE, diags |-> <<>>]
  /\ called = {}

Init ==
  /\ FD \in KernelFuncs
  /\ targetAPI \in TargetAPIs
  /\ pc = "begin"
  /\ Fresh

Next == Begin \/ CheckInOut \/ CheckUsrData \/ ScanParam \/ Finish \/ CreateDescriptor

Spec == Init /\ [][Next]_vars

(***************************************************************************)
(* The special functions: root() for graphics, init() and .rs.dtor()       *)
(***************************************************************************)

\* Lines 314-334.
isGraphicsRootRSFunc(api, fd) ==
  IF ~isRootRSFunc(fd) THEN FALSE
  ELSE IF Len(fd.params) = 0 THEN TRUE
  ELSE IF api < SLANG_ICS_TARGET_API /\ Len(fd.params) = 1 /\ fd.ret = "int" THEN TRUE
  ELSE FALSE

\* Faulty variant of isRSForEachFunc: any parameter makes a candidate.
isRSForEachFuncAnyParam(api, fd) ==
  IF isGraphicsRootRSFunc(api, fd) THEN FALSE
  ELSE Len(fd.params) > 0

\* Lines 336-364.
isRSForEachFunc(api, fd) ==
  IF isGraphicsRootRSFunc(api, fd) THEN FALSE
  ELSE IF Len(fd.params) > 0 /\ isPointerType(getParamDecl(fd, 0).type) THEN TRUE
  ELSE IF Len(fd.params) > 0 /\ isRootRSFunc(fd) THEN TRUE
  ELSE FALSE

\* Faulty variant of LegacyParamError: qualifiers of the parameter are dropped.
LegacyParamErrorUnqualified(api, fd) ==
  /\ api < SLANG_ICS_TARGET_API
  /\ Len(fd.params) = 1
  /\ getUnqualifiedType(getParamDecl(fd, 0).type) # "int"

\* Lines 376-390: the parameter of a legacy graphics root() is not an int.
LegacyParamError(api, fd) ==
  /\ api < SLANG_ICS_TARGET_API
  /\ Len(fd.params) = 1
  /\ getParamDecl(fd, 0).type # "int"

\* Lines 375-401: the diagnostics for a graphics root().
GraphicsRootDiags(api, fd) ==
  (IF LegacyParamError(api, fd) THEN <<Diag("LegacyRootParam", 0)>> ELSE <<>>)
  \o (IF fd.ret # "int" THEN <<Diag("RootNotInt", NULL)>> ELSE <<>>)

\* Lines 402-421: the diagnostics for init() and .rs.dtor().
InitDtorDiags(fd) ==
  (IF Len(fd.params) # 0 THEN <<Diag("NoParameters", NULL)>> ELSE <<>>)
  \o (IF fd.ret # "void" THEN <<Diag("VoidReturn", NULL)>> ELSE <<>>)

\* Line 375 and line 402: the functions validateSpecialFuncDecl may be
\* called on (line 423 asserts on the others).
isSpecial(api, fd) ==
  isGraphicsRootRSFunc(api, fd) \/ isInitRSFunc(fd) \/ isDtorRSFunc(fd)

\* Lines 366-427.
validateSpecialFuncDecl(api, fd) ==
  LET d == IF isGraphicsRootRSFunc(api, fd) THEN GraphicsRootDiags(api, fd)
           ELSE InitDtorDiags(fd)
  IN [valid |-> d = <<>>, diags |-> d]

CallIsGraphicsRootRSFunc ==
  /\ pc = "special"
  /\ "isGraphicsRootRSFunc" \notin called
  /\ gfxRoot' = isGraphicsRootRSFunc(targetAPI, FD)
  /\ called' = called \cup {"isGraphicsRootRSFunc"}
  /\ UNCHANGED <<FD, targetAPI, kernelVars, forEach, special>>

CallIsRSForEachFunc ==
  /\ pc = "special"
  /\ "isRSForEachFunc" \notin called
  /\ forEach' = isRSForEachFunc(targetAPI, FD)
  /\ called' = called \cup {"isRSForEachFunc"}
  /\ UNCHANGED <<FD, targetAPI, kernelVars, gfxRoot, special>>

CallValidateSpecialFuncDecl ==
  /\ pc = "special"
  /\ "validateSpecialFuncDecl" \notin called
  /\ isSpecial(targetAPI, FD)
  /\ special' = validateSpecialFuncDecl(targetAPI, FD)
  /\ called' = called \cup {"validateSpecialFuncDecl"}
  /\ UNCHANGED <<FD, targetAPI, kernelVars, gfxRoot, forEach>>

SpecialFuncs ==
  [name : {"root", "init", ".rs.dtor", "foo"}, ret : {"void", "int", "float"},
   params : SeqsUpTo(SpecialParams, 0, MaxSpecialParams)]

InitSpecial ==
  /\ FD \in SpecialFuncs
  /\ targetAPI \in TargetAPIs
  /\ pc = "special"
  /\ Fresh

NextSpecial ==
  CallIsGraphicsRootRSFunc \/ CallIsRSForEachFunc \/ CallValidateSpecialFuncDecl

SpecSpecial == InitSpecial /\ [][NextSpecial]_vars

(***************************************************************************)
(* Properties                                                              *)
(***************************************************************************)

HasBit(m, b) == (m \div b) % 2 = 1

HasDiag(id) == \E k \in 1..Len(diags) : diags[k].id = id

\* validateAndConstructParams has returned and Create has not gone on yet.
Returned == pc = "create"

\* Create has returned a descriptor.
Built == pc = "done" /\ created = "descriptor"

\* The index at which a usrData parameter is looked for (line 123).
UsrDataIndex == (IF mIn # NULL THEN 1 ELSE 0) + (IF mOut # NULL THEN 1 ELSE 0)

\* The function has a parameter classified as usrData that is a const void *.
HasVoidUsrData ==
  /\ UsrDataIndex < Len(FD.params)
  /\ getParamDecl(FD, UsrDataIndex).type = "const void *"

\* C1 as stated: in every descriptor Create returns, each bit of
\* signatureMetadata is set exactly when its role slot is non-empty.
C1_BitsMirrorSlots ==
  Built =>
    /\ HasBit(mSignatureMetadata, 1) <=> (mIn # NULL)
    /\ HasBit(mSignatureMetadata, 2) <=> (mOut # NULL)
    /\ HasBit(mSignatureMetadata, 4) <=> (mUsrData # NULL)
    /\ HasBit(mSignatureMetadata, 8) <=> (mX # NULL)
    /\ HasBit(mSignatureMetadata, 16) <=> (mY # NULL)

\* C1 as amended: in every descriptor Create returns, the In, Out, X and Y
\* bits are set exactly when their slots are non-empty, and the UsrData bit
\* is set exactly when the function has a usrData parameter: its slot is
\* non-empty, or it is a const void * whose slot Create cleared (and then
\* there is no packet type).
C1_BitsMirrorClassifiedRoles ==
  Built =>
    /\ HasBit(mSignatureMetadata, 1) <=> (mIn # NULL)
    /\ HasBit(mSignatureMetadata, 2) <=> (mOut # NULL)
    /\ HasBit(mSignatureMetadata, 4) <=> (mUsrData # NULL \/ HasVoidUsrData)
    /\ HasBit(mSignatureMetadata, 8) <=> (mX # NULL)
    /\ HasBit(mSignatureMetadata, 16) <=> (mY # NULL)
    /\ mSignatureMetadata \in 1..31
    /\ HasVoidUsrData => (mUsrData = NULL /\ ~mParamPacketType)
    /\ mParamPacketType <=> (mUsrData # NULL)

C1_Witness ==
  /\ Built
  /\ HasVoidUsrData
  /\ mUsrData = NULL
  /\ mSignatureMetadata = 31

\* C2: whenever validateAndConstructParams returns false, signatureMetadata
\* is 0.
C2_FailureLeavesZero ==
  (pc \in {"create", "done"} /\ ~result) => mSignatureMetadata = 0

\* C3: a signature without shape error is rejected by the post-check exactly
\* when the target API is below ICS and its mask is none of 0x01, 0x03, 0x07,
\* 0x0F, 0x1F; at or above ICS the mask is accepted unchanged.
C3_CompatibilityCheck ==
  (Returned /\ \A k \in 1..Len(diags) : diags[k].id = "MayNotSkip") =>
    /\ mSignatureMetadata =
         (IF mIn # NULL THEN 1 ELSE 0) + (IF mOut # NULL THEN 2 ELSE 0)
         + (IF mUsrData # NULL THEN 4 ELSE 0) + (IF mX # NULL THEN 8 ELSE 0)
         + (IF mY # NULL THEN 16 ELSE 0)
    /\ ~result <=> (targetAPI < SLANG_ICS_TARGET_API /\ mSignatureMetadata \notin {1, 3, 7, 15, 31})
    /\ ~result <=> HasDiag("MayNotSkip")
    /\ (targetAPI < SLANG_ICS_TARGET_API /\ mSignatureMetadata \in {11, 2, 5}) => ~result
    /\ mSignatureMetadata = 7 => result
    /\ targetAPI >= SLANG_ICS_TARGET_API => result

C3_Witness ==
  /\ Returned
  /\ targetAPI < SLANG_ICS_TARGET_API
  /\ mSignatureMetadata = 11
  /\ ~result
  /\ diags = <<Diag("MayNotSkip", NULL)>>

\* A void function (const A *, B *, const C *, unsigned int x, unsigned int y).
FullKernel ==
  /\ FD.ret = "void"
  /\ Len(FD.params) = 5
  /\ FD.params[1].type \in {"const T *", "const void *"}
  /\ FD.params[2].type = "T *"
  /\ FD.params[3].type \in {"const T *", "const void *"}
  /\ FD.params[4] = Param("unsigned int", "x")
  /\ FD.params[5] = Param("unsigned int", "y")

\* C4: for every such function, at every target API that admits it as a
\* kernel, validateAndConstructParams succeeds with mask 0x1F and In, Out,
\* UsrData, X, Y at the positions 0, 1, 2, 3, 4.
C4_FullSignature ==
  (Returned /\ FullKernel /\ (targetAPI >= SLANG_JB_TARGET_API \/ FD.name = "root")) =>
    /\ result
    /\ mSignatureMetadata = 31
    /\ <<mIn, mOut, mUsrData, mX, mY>> = <<0, 1, 2, 3, 4>>
    /\ diags = <<>>

C4_Witness ==
  /\ Returned
  /\ FullKernel
  /\ targetAPI < SLANG_ICS_TARGET_API
  /\ result
  /\ mSignatureMetadata = 31

\* The in and out checks have run and assigned neither.
NeitherInNorOut ==
  /\ pc \in {"usrdata", "scan", "create", "done"}
  /\ ~HasDiag("NonRootKernel")
  /\ mIn = NULL
  /\ mOut = NULL

\* C5 as stated: when neither In nor Out is assigned, classification fails
\* and no UsrData, X or Y slot is assigned.
C5_ScanSkipped ==
  NeitherInNorOut => (~valid /\ mUsrData = NULL /\ mX = NULL /\ mY = NULL)

\* C5 as amended: when neither In nor Out is assigned, classification fails
\* with the missing in/out diagnostic and a zero mask and no UsrData slot is
\* assigned, but the coordinate scan still runs over every remaining
\* parameter (and may assign X and Y).
C5_FailsButScans ==
  NeitherInNorOut =>
    /\ ~valid
    /\ HasDiag("MissingInOut")
    /\ mUsrData = NULL
    /\ pc \in {"create", "done"} =>
         (~result /\ mSignatureMetadata = 0 /\ i = numParams)
    /\ pc = "done" => created = "NULL"

C5_Witness ==
  /\ NeitherInNorOut
  /\ pc = "done"
  /\ mX = 0
  /\ mY = 1
  /\ i = numParams
  /\ created = "NULL"

\* The scan is at an unsigned int parameter named "x" with X or Y assigned.
AtRepeatedX ==
  /\ pc = "scan"
  /\ i < numParams
  /\ getParamDecl(FD, i).type \in {"unsigned int", "const unsigned int"}
  /\ getParamDecl(FD, i).name = "x"
  /\ (mX # NULL \/ mY # NULL)

\* C6: such a parameter gets the duplicate-entry error, makes classification
\* fail and leaves the X and Y slots as they are, and classification stays
\* failed whatever follows.
C6_RepeatedX ==
  /\ [][AtRepeatedX =>
          /\ ~valid'
          /\ diags' = Append(diags, Diag("Duplicate", i))
          /\ mX' = mX
          /\ mY' = mY]_vars
  /\ []((HasDiag("Duplicate") /\ pc \in {"scan", "create", "done"}) =>
          (~valid /\ (pc # "scan" => ~result) /\ (pc = "done" => created = "NULL")))

\* An "x" after a "y" was refused, and it is the only error.
C6_Witness ==
  /\ pc = "done"
  /\ mX = NULL
  /\ mY = 2
  /\ diags = <<Diag("Duplicate", 3)>>
  /\ getParamDecl(FD, 3) = Param("unsigned int", "x")
  /\ created = "NULL"

\* C9: a function that does not return void always fails classification
\* with an error recorded, and Create returns NULL.
C9_NonVoidFails ==
  (FD.ret # "void" /\ pc \in {"create", "done"}) =>
    /\ ~result
    /\ Len(diags) > 0
    /\ mSignatureMetadata = 0
    /\ pc = "done" => created = "NULL"

C9_Witness ==
  /\ FD.ret # "void"
  /\ pc = "done"
  /\ targetAPI >= SLANG_ICS_TARGET_API
  /\ diags = <<Diag("ReturnNotVoid", NULL)>>
  /\ <<mIn, mOut, mUsrData, mX, mY>> = <<0, 1, 2, 3, 4>>
  /\ created = "NULL"

RoleSlots == <<mIn, mOut, mUsrData, mX, mY>>

BitCount(m) ==
  (m % 2) + ((m \div 2) % 2) + ((m \div 4) % 2) + ((m \div 8) % 2) + ((m \div 16) % 2)

Called(f) == f \in called

InitOrDtorWithParams ==
  /\ FD.name \in {"init", ".rs.dtor"}
  /\ Len(FD.params) >= 1

\* C7 as stated: an init or destructor function with parameters is rejected
\* with the no-parameters error, and isRSForEachFunc is false for it.
C7_NeverForEach ==
  InitOrDtorWithParams =>
    /\ Called("validateSpecialFuncDecl") =>
         (~special.valid /\ Diag("NoParameters", NULL) \in
                              {special.diags[k] : k \in 1..Len(special.diags)})
    /\ Called("isRSForEachFunc") => ~forEach

\* C7 as amended: it is rejected with the no-parameters error, and
\* isRSForEachFunc is true for it exactly when its first parameter is a
\* pointer.
C7_ForEachIffPointer ==
  InitOrDtorWithParams =>
    /\ Called("validateSpecialFuncDecl") =>
         (~special.valid /\ Diag("NoParameters", NULL) \in
                              {special.diags[k] : k \in 1..Len(special.diags)})
    /\ Called("isRSForEachFunc") =>
         (forEach <=> FD.params[1].type \in {"T *", "const T *", "const void *"})

C7_Witness ==
  /\ InitOrDtorWithParams
  /\ called = {"isGraphicsRootRSFunc", "isRSForEachFunc", "validateSpecialFuncDecl"}
  /\ forEach
  /\ ~gfxRoot
  /\ ~special.valid

\* C8: for a graphics root, validateSpecialFuncDecl is true exactly when the
\* return type is int and there is no parameter or, below ICS, the single
\* parameter is an int; a one-parameter root at or above ICS is no graphics
\* root; no function is both a graphics root and a ForEach function.
C8_GraphicsRoot ==
  /\ (Called("isGraphicsRootRSFunc") /\ gfxRoot /\ Called("validateSpecialFuncDecl")) =>
       (special.valid <=>
          /\ FD.ret = "int"
          /\ \/ Len(FD.params) = 0
             \/ (targetAPI < SLANG_ICS_TARGET_API /\ Len(FD.params) = 1 /\ FD.params[1].type = "int"))
  /\ (Called("isGraphicsRootRSFunc") /\ gfxRoot) =>
       (FD.name = "root" /\ (Len(FD.params) = 0 \/ (Len(FD.params) = 1 /\ targetAPI < SLANG_ICS_TARGET_API)))
  /\ (Called("isGraphicsRootRSFunc") /\ FD.name = "root" /\ Len(FD.params) = 1
        /\ targetAPI >= SLANG_ICS_TARGET_API) => ~gfxRoot
  /\ (Called("isGraphicsRootRSFunc") /\ Called("isRSForEachFunc")) => ~(gfxRoot /\ forEach)

C8_Witness ==
  /\ called = {"isGraphicsRootRSFunc", "isRSForEachFunc", "validateSpecialFuncDecl"}
  /\ gfxRoot
  /\ Len(FD.params) = 1
  /\ special.valid
  /\ ~forEach

====
